---------------------------- MODULE Spec2Model ----------------------------
(***************************************************************************)
(* A model of src/main.rs of text-summarizer: FileType::from_extension,    *)
(* TextAnalyzer::{new, basic_stats, analyze_text, analyze_markdown,        *)
(* analyze_log, analyze_rust_code, get_word_frequency} and the dispatch of *)
(* main.                                                                   *)
(*                                                                         *)
(* A Rust char is a TLA+ string naming it: an ASCII character names        *)
(* itself ("a", " ", "\n"), any other is named by its code point           *)
(* ("U+00E9" is e-acute, "U+00C9" its capital, "U+0060" the backtick,      *)
(* which the TLA+ lexer does not take inside a string).  A Rust String or  *)
(* &str is the sequence of its chars.  The text of a format! literal is    *)
(* kept as one element (<<"Log levels: ">>), so a formatted string is the  *)
(* concatenation of its elements.                                          *)
(***************************************************************************)
EXTENDS Integers, Sequences, FiniteSets, TLC

VARIABLES content, lines, path, file_type, word_freq, prev, summary

vars == <<content, lines, path, file_type, word_freq, prev, summary>>

-----------------------------------------------------------------------------
(* Characters (std::char), over the characters the inputs are drawn from.  *)

LowerAlpha == <<"a","b","c","d","e","f","g","h","i","j","k","l","m",
                "n","o","p","q","r","s","t","u","v","w","x","y","z">>

UpperAlpha == <<"A","B","C","D","E","F","G","H","I","J","K","L","M",
                "N","O","P","Q","R","S","T","U","V","W","X","Y","Z">>

Range(f) == {f[i] : i \in DOMAIN f}

\* char::is_whitespace
IsWhitespace(c) == c \in {" ", "\t", "\n", "\r"}

Lowercase == Range(LowerAlpha) \cup {"U+00E9"}

Uppercase == Range(UpperAlpha) \cup {"U+00C9"}

\* char::is_alphabetic
IsAlphabetic(c) == c \in Lowercase \cup Uppercase

\* char::to_uppercase
UpperChar(c) ==
    IF c = "U+00E9" THEN "U+00C9"
    ELSE IF c \in Lowercase
      THEN UpperAlpha[CHOOSE i \in DOMAIN LowerAlpha : LowerAlpha[i] = c]
      ELSE c

\* char::to_lowercase
LowerChar(c) ==
    IF c = "U+00C9" THEN "U+00E9"
    ELSE IF c \in Uppercase
      THEN LowerAlpha[CHOOSE i \in DOMAIN UpperAlpha : UpperAlpha[i] = c]
      ELSE c

\* char::len_utf8: the bytes of the char in a String
Utf8Len(c) == IF c \in {"U+00E9", "U+00C9"} THEN 2 ELSE 1

-----------------------------------------------------------------------------
(* Strings (std::str).                                                     *)

\* str::to_uppercase (the sequence is built once, by \o)
ToUppercase(s) == <<>> \o [i \in 1..Len(s) |-> UpperChar(s[i])]

\* str::to_lowercase
ToLowercase(s) == <<>> \o [i \in 1..Len(s) |-> LowerChar(s[i])]

\* s.chars().count()
CharCount(s) == Len(s)

\* str::len: the length in bytes
ByteLen(s) ==
    LET Wide(w) == Cardinality({i \in DOMAIN s : Utf8Len(s[i]) = w})
    IN  Wide(1) + 2 * Wide(2) + 3 * Wide(3) + 4 * Wide(4)

\* the chars of s that lie within its first n bytes
CharsWithin(s, n) ==
    Cardinality({k \in DOMAIN s : ByteLen(SubSeq(s, 1, k)) <= n})

\* str::is_char_boundary
IsCharBoundary(s, n) == ByteLen(SubSeq(s, 1, CharsWithin(s, n))) = n

\* &s[0..n] for a byte index n that is a char boundary
ByteSlice(s, n) == SubSeq(s, 1, CharsWithin(s, n))

\* the pattern p matches in s at char index i
MatchAt(s, p, i) ==
    /\ i + Len(p) - 1 <= Len(s)
    /\ \A k \in DOMAIN p : s[i + k - 1] = p[k]

\* str::starts_with
StartsWith(s, p) == MatchAt(s, p, 1)

\* str::contains
Contains(s, p) == \E i \in 1..(Len(s) + 1) : MatchAt(s, p, i)

\* str::find: the char index of the first match, 0 for None
Find(s, p) ==
    IF Contains(s, p)
      THEN CHOOSE i \in 1..(Len(s) + 1) :
             MatchAt(s, p, i) /\ \A j \in 1..(i - 1) : ~MatchAt(s, p, j)
      ELSE 0

RECURSIVE MatchesFrom(_, _, _)
MatchesFrom(s, p, i) ==
    IF i > Len(s) THEN 0
    ELSE IF MatchAt(s, p, i) THEN 1 + MatchesFrom(s, p, i + Len(p))
    ELSE MatchesFrom(s, p, i + 1)

\* s.matches(p).count(): the matches, left to right, not overlapping
MatchesCount(s, p) == MatchesFrom(s, p, 1)

RECURSIVE TrimStart(_)
\* str::trim_start
TrimStart(s) ==
    IF s # <<>> /\ IsWhitespace(Head(s)) THEN TrimStart(Tail(s)) ELSE s

RECURSIVE TrimEnd(_)
\* str::trim_end
TrimEnd(s) ==
    IF s # <<>> /\ IsWhitespace(s[Len(s)])
      THEN TrimEnd(SubSeq(s, 1, Len(s) - 1)) ELSE s

\* str::trim
Trim(s) == TrimEnd(TrimStart(s))

RECURSIVE TrimStartMatches(_, _)
\* str::trim_start_matches(c)
TrimStartMatches(s, c) ==
    IF s # <<>> /\ Head(s) = c THEN TrimStartMatches(Tail(s), c) ELSE s

RECURSIVE TakeWhileCount(_, _)
\* s.chars().take_while(|&x| x == c).count()
TakeWhileCount(s, c) ==
    IF s # <<>> /\ Head(s) = c THEN 1 + TakeWhileCount(Tail(s), c) ELSE 0

\* the k-th smallest element of the set S of numbers
Nth(S, k) == CHOOSE i \in S : Cardinality({j \in S : j < i}) = k - 1

\* str::split_whitespace, collected: the maximal runs of chars that are not
\* whitespace, in order
SplitWhitespace(s) ==
    LET first == {i \in DOMAIN s : /\ ~IsWhitespace(s[i])
                                   /\ (i = 1 \/ IsWhitespace(s[i - 1]))}
        last  == {i \in DOMAIN s : /\ ~IsWhitespace(s[i])
                                   /\ (i = Len(s) \/ IsWhitespace(s[i + 1]))}
    IN  [k \in 1..Cardinality(first) |-> SubSeq(s, Nth(first, k), Nth(last, k))]

\* the line of a piece that ended in '\n': one trailing '\r' is dropped too
StripCr(l) ==
    IF l # <<>> /\ l[Len(l)] = "\r" THEN SubSeq(l, 1, Len(l) - 1) ELSE l

\* str::lines, collected: the pieces ended by '\n' (or "\r\n") without
\* that end, and what follows the last '\n' when it is not empty
Lines(s) ==
    LET nl == {i \in DOMAIN s : s[i] = "\n"}
        n  == Cardinality(nl)
        From(k) == IF k = 1 THEN 1 ELSE Nth(nl, k - 1) + 1
        ended == [k \in 1..n |-> StripCr(SubSeq(s, From(k), Nth(nl, k) - 1))]
        rest  == SubSeq(s, From(n + 1), Len(s))
    IN  IF rest = <<>> THEN ended ELSE Append(ended, rest)

RECURSIVE Join(_, _)
\* [String]::join(sep)
Join(ss, sep) ==
    IF ss = <<>> THEN <<>>
    ELSE IF Len(ss) = 1 THEN ss[1]
    ELSE ss[1] \o sep \o Join(Tail(ss), sep)

\* Iterator::take(n), collected
Take(ss, n) == SubSeq(ss, 1, IF Len(ss) < n THEN Len(ss) ELSE n)

Digits == <<"0","1","2","3","4","5","6","7","8","9">>

RECURSIVE Dec(_)
\* usize::to_string and "{}" of a usize: the decimal digits
Dec(n) == IF n < 10 THEN <<Digits[n + 1]>>
          ELSE Dec(n \div 10) \o <<Digits[(n % 10) + 1]>>

\* "{:.1}" of the f64 num/den: one decimal, a tie to the even digit.  Exact
\* for the quotients of the bounded inputs (no quotient of counts below 20
\* lies within a rounding error of a tie that is not itself an f64).
Fmt1(num, den) ==
    LET q == (10 * num) \div den
        r == (10 * num) % den
        t == IF 2 * r > den \/ (2 * r = den /\ q % 2 = 1) THEN q + 1 ELSE q
    IN  Dec(t \div 10) \o <<".">> \o Dec(t % 10)

RECURSIVE IterOrders(_)
\* the orders in which a HashMap of keys S may be iterated: the hasher is
\* seeded at random (RandomState), any order can come out
IterOrders(S) ==
    IF S = {} THEN {<<>>}
    ELSE UNION {{<<x>> \o p : p \in IterOrders(S \ {x})} : x \in S}

-----------------------------------------------------------------------------
(* Option<T>: None is <<>>, Some(x) is <<x>>.                              *)

None == <<>>

Some(x) == <<x>>

\* the char index of the last '.' of s, 0 when there is none
LastDot(s) ==
    IF \E i \in DOMAIN s : s[i] = "."
      THEN CHOOSE i \in DOMAIN s :
             s[i] = "." /\ \A j \in (i + 1)..Len(s) : s[j] # "."
      ELSE 0

\* Path::extension of a path of one component: None without a file name
\* ("", ".", ".."), without a '.', or when the only '.' starts the name;
\* else what follows the last '.'
Extension(p) ==
    IF p \in {<<>>, <<".">>, <<".", ".">>} \/ LastDot(p) <= 1
      THEN None
      ELSE Some(SubSeq(p, LastDot(p) + 1, Len(p)))

\* from_extension matching the extension whatever its case
FromExtensionAnyCase(p) ==
    LET ext == [i \in DOMAIN Extension(p) |-> ToLowercase(Extension(p)[i])]
    IN  CASE ext = Some(<<"t","x","t">>) -> "Text"
          [] ext = Some(<<"m","d">>)     -> "Markdown"
          [] ext = Some(<<"l","o","g">>) -> "Log"
          [] ext = Some(<<"r","s">>)     -> "RustCode"
          [] OTHER                       -> "Unknown"

\* FileType::from_extension
FromExtension(p) ==
    LET ext == Extension(p)
    IN  CASE ext = Some(<<"t","x","t">>) -> "Text"
          [] ext = Some(<<"m","d">>)     -> "Markdown"
          [] ext = Some(<<"l","o","g">>) -> "Log"
          [] ext = Some(<<"r","s">>)     -> "RustCode"
          [] OTHER                       -> "Unknown"

-----------------------------------------------------------------------------
(* FileSummary.  NoSummary: no analyzer has returned; Panicked: the call   *)
(* panicked and unwound, no FileSummary exists.                            *)

NoSummary == [status |-> "none"]

Panicked == [status |-> "panic"]

FileSummary(ft, stats, insights, statistics) ==
    [status       |-> "ok",
     file_type    |-> ft,
     line_count   |-> stats[1],
     word_count   |-> stats[2],
     char_count   |-> stats[3],
     key_insights |-> insights,
     statistics   |-> statistics]

\* basic_stats counting bytes (content.len()) for chars
BasicStatsInBytes(c, ls) == <<Len(ls), Len(SplitWhitespace(c)), ByteLen(c)>>

\* TextAnalyzer::basic_stats
BasicStats(c, ls) == <<Len(ls), Len(SplitWhitespace(c)), CharCount(c)>>

-----------------------------------------------------------------------------
(* TextAnalyzer::get_word_frequency                                        *)

\* word.to_lowercase().chars().filter(|c| c.is_alphabetic()).collect()
CleanWord(w) == SelectSeq(ToLowercase(w), IsAlphabetic)

\* the test of line 279 on a cleaned word: String::len is in bytes
KeepWord(w) == w # <<>> /\ ByteLen(w) > 2

\* *map.entry(k).or_insert(0) += 1
Bump(m, k) == IF k \in DOMAIN m THEN [m EXCEPT ![k] = @ + 1] ELSE m @@ (k :> 1)

RECURSIVE CountWords(_, _)
\* the loop of lines 277-282 over the tokens ws, from the map m
CountWords(ws, m) ==
    IF ws = <<>> THEN m
    ELSE LET w == CleanWord(Head(ws))
         IN  CountWords(Tail(ws), IF KeepWord(w) THEN Bump(m, w) ELSE m)

\* the HashMap word_count after the loop
WordCountMap(c) == CountWords(SplitWhitespace(c), <<>>)

RECURSIVE InsertDesc(_, _)
InsertDesc(sorted, e) ==
    IF sorted = <<>> THEN <<e>>
    ELSE IF Head(sorted).count >= e.count
      THEN <<Head(sorted)>> \o InsertDesc(Tail(sorted), e)
      ELSE <<e>> \o sorted

RECURSIVE SortByCountDesc(_)
\* sort_by(|a, b| b.1.cmp(&a.1)): stable, equal counts keep their order
SortByCountDesc(v) ==
    IF v = <<>> THEN <<>>
    ELSE InsertDesc(SortByCountDesc(SubSeq(v, 1, Len(v) - 1)), v[Len(v)])

\* word_count.into_iter().collect() in iteration order p, then sorted
SortedWords(m, p) ==
    SortByCountDesc([i \in DOMAIN p |-> [word |-> p[i], count |-> m[p[i]]]])

\* the vectors get_word_frequency may return for content c
GetWordFrequency(c) ==
    LET m == WordCountMap(c)
    IN  {SortedWords(m, p) : p \in IterOrders(DOMAIN m)}

-----------------------------------------------------------------------------
(* TextAnalyzer::analyze_text                                              *)

\* the filter of line 58: word.len() > 3, in bytes
LongWord(e) == ByteLen(e.word) > 3

\* format!("{} ({})", word, count)
WordAndCount(e) == e.word \o <<" (">> \o Dec(e.count) \o <<")">>

TopWords(wf) ==
    LET kept == Take(SelectSeq(wf, LongWord), 5)
    IN  [i \in DOMAIN kept |-> WordAndCount(kept[i])]

RECURSIVE SumCharCounts(_)
SumCharCounts(ws) ==
    IF ws = <<>> THEN 0 ELSE CharCount(Head(ws)) + SumCharCounts(Tail(ws))

\* analyze_text, word_freq being what get_word_frequency returned
AnalyzeText(c, ls, wf) ==
    LET stats == BasicStats(c, ls)
        top_words == TopWords(wf)
        insights ==
            IF top_words # <<>>
              THEN << <<"Most frequent words: ">> \o Join(top_words, <<", ">>) >>
              ELSE <<>>
        avg_word_len ==
            IF stats[2] > 0
              THEN Fmt1(SumCharCounts(SplitWhitespace(c)), stats[2])
              ELSE Fmt1(0, 1)
        avg_line_len ==
            IF stats[1] > 0 THEN Fmt1(stats[3], stats[1]) ELSE Fmt1(0, 1)
    IN  FileSummary("Text", stats, insights,
                    [avg_word_length |-> avg_word_len,
                     avg_line_length |-> avg_line_len])

-----------------------------------------------------------------------------
(* TextAnalyzer::analyze_markdown                                          *)

\* the loop of lines 92-105 counting the lines with a link, not the links
MarkdownLineLinkOnce(acc, line) ==
    LET trimmed == Trim(line)
    IN  [headers |->
           IF StartsWith(trimmed, <<"#">>)
             THEN Append(acc.headers,
                         [level |-> TakeWhileCount(trimmed, "#"),
                          text  |-> Trim(TrimStartMatches(trimmed, "#"))])
             ELSE acc.headers,
         links  |-> acc.links + (IF Contains(line, <<"]", "(">>) THEN 1 ELSE 0),
         images |-> acc.images + MatchesCount(line, <<"!", "[">>),
         code_blocks |->
           IF StartsWith(trimmed, <<"U+0060", "U+0060", "U+0060">>)
             THEN acc.code_blocks + 1
             ELSE acc.code_blocks]

\* the body of the loop of lines 92-105 on one line
MarkdownLine(acc, line) ==
    LET trimmed == Trim(line)
    IN  [headers |->
           IF StartsWith(trimmed, <<"#">>)
             THEN Append(acc.headers,
                         [level |-> TakeWhileCount(trimmed, "#"),
                          text  |-> Trim(TrimStartMatches(trimmed, "#"))])
             ELSE acc.headers,
         links  |-> acc.links + MatchesCount(line, <<"]", "(">>),
         images |-> acc.images + MatchesCount(line, <<"!", "[">>),
         code_blocks |->
           IF StartsWith(trimmed, <<"U+0060", "U+0060", "U+0060">>)
             THEN acc.code_blocks + 1
             ELSE acc.code_blocks]

RECURSIVE MarkdownScan(_, _)
MarkdownScan(ls, acc) ==
    IF ls = <<>> THEN acc
    ELSE MarkdownScan(Tail(ls), MarkdownLine(acc, Head(ls)))

\* format!("H{}: {}", level, text)
HeaderSummary(h) == <<"H">> \o Dec(h.level) \o <<": ">> \o h.text

AnalyzeMarkdown(c, ls) ==
    LET stats == BasicStats(c, ls)
        acc == MarkdownScan(ls, [headers |-> <<>>, links |-> 0, images |-> 0,
                                 code_blocks |-> 0])
        shown == Take(acc.headers, 5)
        insights ==
            IF acc.headers # <<>>
              THEN << <<"Document structure: ">>
                      \o Join([i \in DOMAIN shown |-> HeaderSummary(shown[i])],
                              <<", ">>) >>
              ELSE <<>>
    IN  FileSummary("Markdown", stats, insights,
                    [headers     |-> Dec(Len(acc.headers)),
                     links       |-> Dec(acc.links),
                     images      |-> Dec(acc.images),
                     code_blocks |-> Dec(acc.code_blocks \div 2)])

-----------------------------------------------------------------------------
(* TextAnalyzer::analyze_log                                               *)

\* the array of line 138
LogLevels == << <<"E","R","R","O","R">>, <<"W","A","R","N">>,
                <<"I","N","F","O">>, <<"D","E","B","U","G">>,
                <<"T","R","A","C","E">> >>

RECURSIVE BumpFirstLevel(_, _, _)
\* the loop of lines 138-142 leaving at the first level the line contains
BumpFirstLevel(m, upper, i) ==
    IF i > Len(LogLevels) THEN m
    ELSE IF Contains(upper, LogLevels[i]) THEN Bump(m, LogLevels[i])
    ELSE BumpFirstLevel(m, upper, i + 1)

RECURSIVE BumpLevels(_, _, _)
\* the loop of lines 138-142 from level i on, upper being the uppercased line
BumpLevels(m, upper, i) ==
    IF i > Len(LogLevels) THEN m
    ELSE BumpLevels(IF Contains(upper, LogLevels[i])
                      THEN Bump(m, LogLevels[i]) ELSE m,
                    upper, i + 1)

\* the test of line 144
IsErrorLine(upper) ==
    \/ Contains(upper, <<"E","R","R","O","R">>)
    \/ Contains(upper, <<"E","X","C","E","P","T","I","O","N">>)
    \/ Contains(upper, <<"F","A","I","L">>)

\* lines 148-153: the timestamp candidate of a line, as an Option
TimestampOf(line) ==
    IF ByteLen(line) > 10
       /\ (Contains(line, <<":">>) \/ Contains(line, <<"-">>)
           \/ Contains(line, <<"/">>))
      THEN LET parts == SplitWhitespace(line)
           IN  IF parts # <<>>
                  /\ (Contains(parts[1], <<":">>) \/ Contains(parts[1], <<"-">>))
                 THEN Some(parts[1]) ELSE None
      ELSE None

\* the body of the loop of lines 136-154 on one line
LogLine(acc, line) ==
    LET upper_line == ToUppercase(line)
    IN  [log_levels |-> BumpLevels(acc.log_levels, upper_line, 1),
         errors     |-> IF IsErrorLine(upper_line)
                          THEN Append(acc.errors, line) ELSE acc.errors,
         timestamps |-> acc.timestamps \o TimestampOf(line)]

RECURSIVE LogScan(_, _)
LogScan(ls, acc) ==
    IF ls = <<>> THEN acc ELSE LogScan(Tail(ls), LogLine(acc, Head(ls)))

\* log_levels, errors and timestamps after the loop
LogFacts(ls) ==
    LogScan(ls, [log_levels |-> <<>>, errors |-> <<>>, timestamps |-> <<>>])

\* the byte length from which a sample is cut, and the bytes kept
SampleLimit == 100

\* lines 169-173 panic: &error[0..100] of an error whose byte 100 lies
\* inside a char
SamplePanics(error) ==
    ByteLen(error) > SampleLimit /\ ~IsCharBoundary(error, SampleLimit)

\* lines 169-173: the insight of the sample of index i (from 0)
SampleInsight(i, error) ==
    IF ByteLen(error) > SampleLimit
      THEN <<"  ">> \o Dec(i + 1) \o <<": ">> \o ByteSlice(error, SampleLimit)
           \o <<"...">>
      ELSE <<"  ">> \o Dec(i + 1) \o <<": ">> \o error

\* format!("{}: {}", level, count)
LevelAndCount(m, level) == level \o <<": ">> \o Dec(m[level])

\* lines 156-159: the insight of the levels, order being the order in which
\* log_levels is iterated
LevelInsights(log_levels, order) ==
    IF DOMAIN log_levels # {}
      THEN << <<"Log levels: ">>
              \o Join([i \in DOMAIN order |-> LevelAndCount(log_levels, order[i])],
                      <<", ">>) >>
      ELSE <<>>

\* lines 161-163
RangeInsights(ts) ==
    IF Len(ts) > 1
      THEN << <<"Time range: ">> \o ts[1] \o <<" to ">> \o ts[Len(ts)] >>
      ELSE <<>>

\* line 166
ErrorSample(errors) == Take(errors, 3)

\* lines 165-175
ErrorInsights(errors) ==
    IF errors # <<>>
      THEN << <<"Sample errors found: ">> \o Dec(Len(errors)) \o <<" total">> >>
           \o [i \in DOMAIN ErrorSample(errors) |->
                 SampleInsight(i - 1, ErrorSample(errors)[i])]
      ELSE <<>>

\* analyze_log from line 156 on: levels is the insight of the levels, facts
\* what the loop collected
LogSummary(stats, facts, levels) ==
    IF \E i \in DOMAIN ErrorSample(facts.errors) :
         SamplePanics(ErrorSample(facts.errors)[i])
      THEN Panicked
      ELSE FileSummary("Log", stats,
                       levels \o RangeInsights(facts.timestamps)
                              \o ErrorInsights(facts.errors),
                       [unique_timestamps |->
                          Dec(Cardinality(Range(facts.timestamps)))])

\* what analyze_log may return: one result for each order in which
\* log_levels may be iterated
AnalyzeLogOutcomes(c, ls) ==
    LET facts == LogFacts(ls)
        rest == LogSummary(BasicStats(c, ls), facts, <<>>)
    IN  IF rest = Panicked THEN {Panicked}
        ELSE {[rest EXCEPT !.key_insights =
                 LevelInsights(facts.log_levels, p) \o @] :
                p \in IterOrders(DOMAIN facts.log_levels)}

-----------------------------------------------------------------------------
(* TextAnalyzer::analyze_rust_code                                         *)

\* lines 204-211: the function name a trimmed line gives, as an Option
FunctionOf(trimmed) ==
    IF StartsWith(trimmed, <<"f","n"," ">>) \/ Contains(trimmed, <<" ","f","n"," ">>)
      THEN LET name_start == Find(trimmed, <<"f","n"," ">>)
               name_part == SubSeq(trimmed, name_start + 3, Len(trimmed))
               paren_pos == Find(name_part, <<"(">>)
           IN  IF name_start # 0 /\ paren_pos # 0
                 THEN Some(Trim(SubSeq(name_part, 1, paren_pos - 1)))
                 ELSE None
      ELSE None

RECURSIVE Identifier(_)
\* the leading chars of s that are alphabetic
Identifier(s) ==
    IF s # <<>> /\ IsAlphabetic(Head(s))
      THEN <<Head(s)>> \o Identifier(Tail(s)) ELSE <<>>

\* the name after the keyword cut at its first char that is not alphabetic
NameAfterIdentifier(trimmed, keyword) ==
    IF StartsWith(trimmed, keyword)
      THEN LET parts == SplitWhitespace(trimmed)
           IN  IF Len(parts) >= 2 THEN Some(Identifier(parts[2])) ELSE None
      ELSE None

\* lines 213-222: trimmed.split_whitespace().nth(1) of a line starting with
\* the keyword, as an Option
NameAfter(trimmed, keyword) ==
    IF StartsWith(trimmed, keyword)
      THEN LET parts == SplitWhitespace(trimmed)
           IN  IF Len(parts) >= 2 THEN Some(parts[2]) ELSE None
      ELSE None

\* the test of line 228
IsComment(trimmed) ==
    StartsWith(trimmed, <<"/", "/">>) \/ StartsWith(trimmed, <<"/", "*">>)

\* the test of line 231
IsTodo(trimmed) ==
    \/ Contains(ToUppercase(trimmed), <<"T","O","D","O">>)
    \/ Contains(ToUppercase(trimmed), <<"F","I","X","M","E">>)

\* the body of the loop of lines 202-234 on one line
RustLine(acc, line) ==
    LET trimmed == Trim(line)
    IN  [functions  |-> acc.functions \o FunctionOf(trimmed),
         structs    |-> acc.structs
                        \o NameAfter(trimmed, <<"s","t","r","u","c","t"," ">>),
         enums      |-> acc.enums \o NameAfter(trimmed, <<"e","n","u","m"," ">>),
         imports    |-> IF StartsWith(trimmed, <<"u","s","e"," ">>)
                          THEN Append(acc.imports, trimmed) ELSE acc.imports,
         comments   |-> IF IsComment(trimmed)
                          THEN acc.comments + 1 ELSE acc.comments,
         todo_count |-> IF IsTodo(trimmed)
                          THEN acc.todo_count + 1 ELSE acc.todo_count]

RECURSIVE RustScan(_, _)
RustScan(ls, acc) ==
    IF ls = <<>> THEN acc ELSE RustScan(Tail(ls), RustLine(acc, Head(ls)))

\* format!("{:.1}%", comment_ratio) of lines 254-256 and 262
CommentRatio(comments, line_count) ==
    (IF line_count > 0 THEN Fmt1(comments * 100, line_count) ELSE Fmt1(0, 1))
    \o <<"%">>

AnalyzeRustCode(c, ls) ==
    LET stats == BasicStats(c, ls)
        acc == RustScan(ls, [functions |-> <<>>, structs |-> <<>>,
                             enums |-> <<>>, imports |-> <<>>,
                             comments |-> 0, todo_count |-> 0])
        functions ==
            IF acc.functions # <<>>
              THEN << <<"Functions (">> \o Dec(Len(acc.functions)) \o <<"): ">>
                      \o Join(Take(acc.functions, 5), <<", ">>) >>
              ELSE <<>>
        structs ==
            IF acc.structs # <<>>
              THEN << <<"Structs: ">> \o Join(acc.structs, <<", ">>) >> ELSE <<>>
        enums ==
            IF acc.enums # <<>>
              THEN << <<"Enums: ">> \o Join(acc.enums, <<", ">>) >> ELSE <<>>
        todos ==
            IF acc.todo_count > 0
              THEN << <<"TODOs/FIXMEs found: ">> \o Dec(acc.todo_count) >>
              ELSE <<>>
        \* line 253: usize subtraction, which panics below zero
        code_lines == stats[1] - acc.comments
    IN  IF code_lines < 0
          THEN Panicked
          ELSE FileSummary("RustCode", stats,
                           functions \o structs \o enums \o todos,
                           [functions     |-> Dec(Len(acc.functions)),
                            structs       |-> Dec(Len(acc.structs)),
                            enums         |-> Dec(Len(acc.enums)),
                            imports       |-> Dec(Len(acc.imports)),
                            comment_ratio |-> CommentRatio(acc.comments, stats[1])])

-----------------------------------------------------------------------------
(* The inputs.                                                             *)

\* at most this many chars in a content drawn char by char
MaxLen == 4

\* at most this many words in a content drawn word by word
MaxWords == 2

\* at most this many lines in a log, a markdown or a source content
MaxLogLines == 3

MaxMarkdownLines == 4

MaxRustLines == 4

\* the sequences of at most n elements of the set S
SeqsUpTo(S, n) == UNION {[1..k -> S] : k \in 0..n}

Pad(c, n) == [i \in 1..n |-> c]

Alphabet == {"a", " ", "\n", "\r", "U+00E9"}

Words ==
    << <<"a","b">>,
       <<"a","b","c">>,
       <<"a","b","c","d">>,
       <<"A","b","c","d",",">>,
       <<"w","x","y","z">>,
       <<"a","1","b">>,
       <<"U+00E9","U+00E9">>,
       <<"U+00E9","a">> >>

\* every content of at most MaxLen chars, and every content of at most
\* MaxWords words, one space between two
TextContents ==
    SeqsUpTo(Alphabet, MaxLen)
    \cup {Join(ws, <<" ">>) : ws \in SeqsUpTo(Range(Words), MaxWords)}

ShortLogLines ==
    << <<"E","R","R","O","R"," ","s","o","m","e","t","h","i","n","g"," ",
       "f","a","i","l","e","d">>,
       <<"I","N","F","O"," ","o","k">>,
       <<"w","a","r","n"," ","d","e","b","u","g">>,
       <<"E","x","c","e","p","t","i","o","n"," ","a","t"," ","x">>,
       <<"1","2",":","0","0",":","0","1"," ","c","o","n","n","e","c","t",
       "i","o","n"," ","f","a","i","l","e","d">>,
       <<"2","0","2","4","-","0","1","-","0","2"," ","t","r","a","c","e",
       " ","s","t","a","r","t","e","d">> >>

\* error lines around the limit of a sample: of SampleLimit + 1 and of
\* SampleLimit ASCII bytes; of two-byte chars with byte SampleLimit inside a
\* char; and of two-byte chars with byte SampleLimit between two chars
LongLogLines ==
    << <<"F","A","I","L">> \o Pad("x", SampleLimit - 3),
       <<"F","A","I","L">> \o Pad("x", SampleLimit - 4),
       <<"E","R","R","O","R">> \o Pad("U+00E9", (SampleLimit - 4) \div 2),
       <<"F","A","I","L">> \o Pad("U+00E9", (SampleLimit - 4) \div 2 + 1) >>

\* the contents of at most n of the lines ls, '\n' between two
LineContents(ls, n) == {Join(c, <<"\n">>) : c \in SeqsUpTo(Range(ls), n)}

LogContents == LineContents(ShortLogLines \o LongLogLines, MaxLogLines)

MarkdownLines ==
    << <<"#"," ","H","e","a","d","e","r">>,
       <<" "," ","#","#"," ","S","u","b"," ","#">>,
       <<"U+0060","U+0060","U+0060">>,
       <<" "," ","U+0060","U+0060","U+0060","r","u","s","t">>,
       <<"[","a","]","(","b",")"," ","[","c","]","(","d",")">>,
       <<"!","[","i","]","(","j",")">>,
       <<"U+0060","U+0060","U+0060","c","o","d","e","U+0060","U+0060",
       "U+0060">>,
       <<>> >>

MarkdownContents == LineContents(MarkdownLines, MaxMarkdownLines)

RustLines ==
    << <<"f","n"," ","f","o","o","(",")"," ","{","}">>,
       <<"s","t","r","u","c","t"," ","B","a","r",";">>,
       <<"/","/"," ","n","o","t","e">>,
       <<"T","O","D","O"," ","f","i","x">>,
       <<"p","u","b"," ","f","n"," ","b","a","r","(","x",":"," ","u","8",
       ")"," ","{">>,
       <<"f","n"," ","b","r","o","k","e","n">>,
       <<"e","n","u","m"," ","K","i","n","d"," ","{">>,
       <<"u","s","e"," ","s","t","d",":",":","f","s",";"," ","/","*"," ",
       "f","i","x","m","e"," ","*","/">> >>

RustContents == LineContents(RustLines, MaxRustLines)

Paths ==
    << <<"t","e","s","t",".","t","x","t">>,
       <<"R","E","A","D","M","E",".","m","d">>,
       <<"a","p","p",".","l","o","g">>,
       <<"m","a","i","n",".","r","s">>,
       <<"a",".","T","X","T">>,
       <<"M","a","k","e","f","i","l","e">>,
       <<".","t","x","t">>,
       <<"l","i","b",".","d",".","r","s">>,
       <<"a",".","t","e","x","t">>,
       <<"a",".">>,
       <<>> >>

-----------------------------------------------------------------------------
(* The state: a TextAnalyzer (content, lines), the path and the FileType   *)
(* of a run of main ("none" outside one), what get_word_frequency last     *)
(* returned, and the last two results of the analyzers.                    *)

\* TextAnalyzer::new
New(c) == [content |-> c, lines |-> Lines(c)]

InitWith(contents) ==
    /\ content \in contents
    /\ lines = New(content).lines
    /\ path = <<>>
    /\ file_type = "none"
    /\ word_freq = <<>>
    /\ prev = NoSummary
    /\ summary = NoSummary

Init == InitWith(TextContents)

InitLog == InitWith(LogContents)

InitMarkdown == InitWith(MarkdownContents)

InitRust == InitWith(RustContents)

\* a method of the analyzer is called outside main, as the tests do; a panic
\* has ended the caller
Callable == file_type = "none" /\ summary.status # "panic"

\* analyzer.analyze_text()
CallAnalyzeText ==
    /\ Callable
    /\ \E wf \in GetWordFrequency(content) :
         /\ word_freq' = wf
         /\ summary' = AnalyzeText(content, lines, wf)
    /\ prev' = summary
    /\ UNCHANGED <<content, lines, path, file_type>>

\* analyzer.analyze_markdown()
CallAnalyzeMarkdown ==
    /\ Callable
    /\ summary' = AnalyzeMarkdown(content, lines)
    /\ prev' = summary
    /\ UNCHANGED <<content, lines, path, file_type, word_freq>>

\* analyzer.analyze_log()
CallAnalyzeLog ==
    /\ Callable
    /\ summary' \in AnalyzeLogOutcomes(content, lines)
    /\ prev' = summary
    /\ UNCHANGED <<content, lines, path, file_type, word_freq>>

\* analyzer.analyze_rust_code()
CallAnalyzeRustCode ==
    /\ Callable
    /\ summary' = AnalyzeRustCode(content, lines)
    /\ prev' = summary
    /\ UNCHANGED <<content, lines, path, file_type, word_freq>>

\* main from line 345 on, for the path p: the FileType of the path, then
\* the analyzer of that FileType, once
Main ==
    /\ file_type = "none"
    /\ summary = NoSummary
    /\ \E p \in Range(Paths) :
         /\ path' = p
         /\ file_type' = FromExtension(p)
         /\ \/ /\ FromExtension(p) \in {"Text", "Unknown"}
               /\ \E wf \in GetWordFrequency(content) :
                    /\ word_freq' = wf
                    /\ summary' = AnalyzeText(content, lines, wf)
            \/ /\ FromExtension(p) = "Markdown"
               /\ summary' = AnalyzeMarkdown(content, lines)
               /\ UNCHANGED word_freq
            \/ /\ FromExtension(p) = "Log"
               /\ summary' \in AnalyzeLogOutcomes(content, lines)
               /\ UNCHANGED word_freq
            \/ /\ FromExtension(p) = "RustCode"
               /\ summary' = AnalyzeRustCode(content, lines)
               /\ UNCHANGED word_freq
    /\ UNCHANGED <<content, lines, prev>>

Next ==
    \/ Main
    \/ CallAnalyzeText
    \/ CallAnalyzeMarkdown
    \/ CallAnalyzeLog
    \/ CallAnalyzeRustCode

Spec == Init /\ [][Next]_vars

\* the first call on a new analyzer
FirstCall == summary = NoSummary

NextLog == FirstCall /\ CallAnalyzeLog

SpecLog == InitLog /\ [][NextLog]_vars

NextMarkdown == FirstCall /\ CallAnalyzeMarkdown

SpecMarkdown == InitMarkdown /\ [][NextMarkdown]_vars

NextRust == FirstCall /\ CallAnalyzeRustCode

SpecRust == InitRust /\ [][NextRust]_vars

-----------------------------------------------------------------------------
(* The claims.                                                             *)

\* the last call returned a FileSummary of FileType ft
ReturnedBy(ft) == summary.status = "ok" /\ summary.file_type = ft

\* the FileSummary has the insight x
HasInsight(x) ==
    \E i \in DOMAIN summary.key_insights : summary.key_insights[i] = x

\* the FileSummary has an insight that starts with the text t
HasInsightOf(t) ==
    \E i \in DOMAIN summary.key_insights : summary.key_insights[i][1] = t

RECURSIVE Orderings(_)
\* the orderings of the finite set S
Orderings(S) ==
    IF S = {} THEN {<<>>}
    ELSE UNION {{Append(p, x) : p \in Orderings(S \ {x})} : x \in S}

\* C1: after from_extension the FileType of a path is Text for the
\* extension "txt", Markdown for "md", Log for "log", RustCode for "rs" and
\* Unknown for every other extension, one of another case or none included;
\* it is always one of the five.
C1_ClassificationTotal ==
    file_type # "none" =>
      LET ext == Extension(path)
      IN  /\ file_type \in {"Text", "Markdown", "Log", "RustCode", "Unknown"}
          /\ file_type = "Text" <=> ext = Some(<<"t","x","t">>)
          /\ file_type = "Markdown" <=> ext = Some(<<"m","d">>)
          /\ file_type = "Log" <=> ext = Some(<<"l","o","g">>)
          /\ file_type = "RustCode" <=> ext = Some(<<"r","s">>)

\* a path of extension "TXT" was classified, as Unknown
C1_Witness ==
    /\ Extension(path) = Some(<<"T","X","T">>)
    /\ file_type = "Unknown"

\* C2: no call of an analyzer panics, whatever the content.
C2_AnalyzersTotal == summary.status # "panic"

\* the chars that end a maximal run of chars that are not whitespace
RunEnds(s) ==
    {i \in DOMAIN s : /\ ~IsWhitespace(s[i])
                      /\ (i = Len(s) \/ IsWhitespace(s[i + 1]))}

\* C3: every FileSummary has line_count the number of lines of the
\* analyzer, word_count the number of maximal runs of chars of the content
\* that are not whitespace and char_count the number of chars of the
\* content, and so the three of the result of the call before.
C3_BasicStatsOfAnyAnalyzer ==
    summary.status = "ok" =>
      /\ summary.line_count = Len(lines)
      /\ summary.word_count = Cardinality(RunEnds(content))
      /\ summary.char_count = Len(content)
      /\ prev.status = "ok" =>
           /\ prev.line_count = summary.line_count
           /\ prev.word_count = summary.word_count
           /\ prev.char_count = summary.char_count

\* two analyzers have run on a content of two lines and two words with a
\* char of two bytes
C3_Witness ==
    /\ prev.status = "ok"
    /\ summary.status = "ok"
    /\ prev.file_type # summary.file_type
    /\ summary.line_count = 2
    /\ summary.word_count = 2
    /\ summary.char_count < ByteLen(content)

C4Input ==
    Join(<<RustLines[1], RustLines[2], RustLines[3], RustLines[4]>>, <<"\n">>)

\* what C4 says of analyze_rust_code on C4Input, the name of the struct in
\* the insight of the structs being name
C4Report(name) ==
    /\ summary.status = "ok"
    /\ summary.statistics.functions = <<"1">>
    /\ HasInsight(<<"Functions (">> \o <<"1">> \o <<"): ">> \o <<"f","o","o">>)
    /\ summary.statistics.structs = <<"1">>
    /\ HasInsight(<<"Structs: ">> \o name)
    /\ HasInsight(<<"TODOs/FIXMEs found: ">> \o <<"1">>)
    /\ summary.line_count = 4
    /\ summary.statistics.comment_ratio = <<"2","5",".","0","%">>

\* C4 as stated: on C4Input analyze_rust_code reports one function, foo,
\* one struct, Bar, a TODO/FIXME insight and a comment_ratio of 25.0%.
C4_AsStated ==
    (content = C4Input /\ summary # NoSummary) => C4Report(<<"B","a","r">>)

\* C4 as amended: on C4Input analyze_rust_code reports one function, foo,
\* one struct under the name "Bar;" (the second token of the line, its
\* semicolon included), a TODO/FIXME insight and a comment_ratio of 25.0%.
C4_StructNameIsSecondToken ==
    (content = C4Input /\ summary # NoSummary) => C4Report(<<"B","a","r",";">>)

\* analyze_rust_code has returned on C4Input
C4_Witness == content = C4Input /\ ReturnedBy("RustCode")

\* C5: two calls of one analyzer on one content return the same
\* FileSummary, the order inside each insight included.
C5_SameCallSameSummary ==
    (/\ prev.status = "ok"
     /\ summary.status = "ok"
     /\ prev.file_type = summary.file_type) => prev = summary

\* C6: no entry of what get_word_frequency returned has a word of two
\* chars or fewer.
C6_NoShortWord == \A i \in DOMAIN word_freq : Len(word_freq[i].word) > 2

\* the error lines of the analyzer, in order
IsError(line) == IsErrorLine(ToUppercase(line))

\* C7's sample of number k: the line if it has at most SampleLimit chars,
\* else its first SampleLimit chars and the ellipsis
C7Sample(k, line) ==
    IF Len(line) <= SampleLimit
      THEN <<"  ">> \o Dec(k) \o <<": ">> \o line
      ELSE <<"  ">> \o Dec(k) \o <<": ">> \o SubSeq(line, 1, SampleLimit)
           \o <<"...">>

\* C7's last insights for the error lines errs
C7Tail(errs) ==
    IF errs = <<>> THEN <<>>
    ELSE << <<"Sample errors found: ">> \o Dec(Len(errs)) \o <<" total">> >>
         \o [k \in 1..(IF Len(errs) < 3 THEN Len(errs) ELSE 3) |->
               C7Sample(k, errs[k])]

\* C7: the insights of analyze_log end with the total of the error lines and
\* the samples of the first three, each whole up to SampleLimit chars and
\* cut to SampleLimit chars with an ellipsis beyond; without an error line
\* there is no such insight.
C7_ErrorSamplesByChars ==
    ReturnedBy("Log") =>
      LET tail == C7Tail(SelectSeq(lines, IsError))
          ins == summary.key_insights
      IN  /\ Len(ins) >= Len(tail)
          /\ SubSeq(ins, Len(ins) - Len(tail) + 1, Len(ins)) = tail
          /\ tail = <<>> => ~HasInsightOf("Sample errors found: ")

\* the lines whose uppercased form contains the token
LinesWith(token) ==
    Cardinality({i \in DOMAIN lines : Contains(ToUppercase(lines[i]), token)})

\* the "Log levels" insight listing, in the order p, the tokens of LogLevels
\* of those indexes, counts[i] being the lines with LogLevels[i]
C8Insight(p, counts) ==
    <<"Log levels: ">>
    \o Join([i \in DOMAIN p |-> LogLevels[p[i]] \o <<": ">> \o Dec(counts[p[i]])],
            <<", ">>)

\* C8 for the numbers counts of the lines with each token of LogLevels
C8Reported(counts) ==
    LET matched == {i \in DOMAIN counts : counts[i] > 0}
    IN  IF matched = {}
          THEN ~HasInsightOf("Log levels: ")
          ELSE \E p \in Orderings(matched) :
                 summary.key_insights[1] = C8Insight(p, counts)

\* C8: analyze_log reports, in its first insight and in some order, each of
\* the five tokens that some uppercased line contains with the number of
\* such lines, and no other token; it has no "Log levels" insight when no
\* line contains a token.
C8_LevelCounters ==
    ReturnedBy("Log") =>
      C8Reported(<<LinesWith(LogLevels[1]), LinesWith(LogLevels[2]),
                   LinesWith(LogLevels[3]), LinesWith(LogLevels[4]),
                   LinesWith(LogLevels[5])>>)

\* analyze_log has returned on the lines "ERROR something failed" and
\* "INFO ok" with ERROR: 1 and INFO: 1
C8_Witness ==
    /\ ReturnedBy("Log")
    /\ lines = <<ShortLogLines[1], ShortLogLines[2]>>
    /\ summary.key_insights[1] =
         <<"Log levels: ">> \o LogLevels[1] \o <<": ">> \o <<"1">> \o <<", ">>
         \o LogLevels[3] \o <<": ">> \o <<"1">>

\* the places of lines where the two chars a, b follow each other
Pairs(a, b) ==
    {<<i, j>> \in (DOMAIN lines) \X (1..Len(content)) :
       j < Len(lines[i]) /\ lines[i][j] = a /\ lines[i][j + 1] = b}

\* the lines whose trimmed form starts with the text t
LinesStarting(t) == {i \in DOMAIN lines : StartsWith(Trim(lines[i]), t)}

Fence == <<"U+0060", "U+0060", "U+0060">>

\* C9: analyze_markdown returns a FileSummary of FileType Markdown whose
\* statistics are headers, links, images and code_blocks: the lines whose
\* trimmed form starts with '#', the occurrences of "](", those of "![",
\* and half the lines whose trimmed form starts with a fence, rounded down.
C9_MarkdownStatistics ==
    summary # NoSummary =>
      /\ ReturnedBy("Markdown")
      /\ DOMAIN summary.statistics = {"headers", "links", "images", "code_blocks"}
      /\ summary.statistics.headers = Dec(Cardinality(LinesStarting(<<"#">>)))
      /\ summary.statistics.links = Dec(Cardinality(Pairs("]", "(")))
      /\ summary.statistics.images = Dec(Cardinality(Pairs("!", "[")))
      /\ summary.statistics.code_blocks =
           Dec(Cardinality(LinesStarting(Fence)) \div 2)

\* analyze_markdown has returned on three fence lines and a line of two
\* links, with one code block
C9_Witness ==
    /\ ReturnedBy("Markdown")
    /\ Cardinality(LinesStarting(Fence)) = 3
    /\ \E i \in DOMAIN lines : MatchesCount(lines[i], <<"]", "(">>) = 2
    /\ summary.statistics.code_blocks = <<"1">>

\* the cleaned words of the content of more than three chars
C10Words ==
    {w \in {CleanWord(t) : t \in Range(SplitWhitespace(content))} : Len(w) > 3}

\* the tokens of the content that clean to w
C10Count(w) ==
    Cardinality({k \in DOMAIN SplitWhitespace(content) :
                   CleanWord(SplitWhitespace(content)[k]) = w})

\* a list C10 allows: at most five of C10Words, each once, by counts that
\* do not increase, no word left out counting more than one listed
C10Allowed(list) ==
    /\ list # <<>>
    /\ Len(list) <= 5
    /\ \A i, j \in DOMAIN list :
         /\ list[i] = list[j] => i = j
         /\ i < j => C10Count(list[i]) >= C10Count(list[j])
    /\ \A w \in C10Words \ Range(list) :
         \A i \in DOMAIN list : C10Count(w) <= C10Count(list[i])

\* C10: analyze_text has no insight when the content has no cleaned word of
\* more than three chars, and else the one insight "Most frequent words" of
\* a list that C10 allows.
C10_MostFrequentWords ==
    ReturnedBy("Text") =>
      IF C10Words = {}
        THEN summary.key_insights = <<>>
        ELSE \E list \in SeqsUpTo(C10Words, Cardinality(C10Words)) :
               /\ C10Allowed(list)
               /\ summary.key_insights =
                    << <<"Most frequent words: ">>
                       \o Join([i \in DOMAIN list |->
                                  list[i] \o <<" (">> \o Dec(C10Count(list[i]))
                                  \o <<")">>],
                               <<", ">>) >>

=============================================================================
